---------------------------- MODULE Spec2Model ----------------------------
(***************************************************************************)
(* kgworkflow: the graph-reasoning-and-query pipeline.                     *)
(*                                                                         *)
(* The model follows the three generations of the helpers that live in the *)
(* repository side by side:                                                *)
(*   "helpers" : src/src/kgworkflow/helpers/{ttl,reasoner,sparql}_helper.py*)
(*               (src/src/kgworkflow/util/helper.py is the same code)      *)
(*   "legacy"  : src/src/util/kg.py                                        *)
(* A Turtle document is a set of prefix declarations and a sequence of     *)
(* statements; a statement is a triple or a piece of text that is not      *)
(* Turtle (Garbage).  A Graph object is a set of triples and a namespace   *)
(* mapping; rdflib's calls (bind, serialize, parse) are modelled by what   *)
(* they do to the Graph object and to the file system.                     *)
(***************************************************************************)
EXTENDS Integers, Sequences, FiniteSets, TLC

\* ------------------------------------------------------------- bounds
\* Calls of the API one run of the caller makes.
MaxCalls == 2
\* Statements in a Turtle document on disk before the run starts.
MaxStmts == 2
\* Calls of the API one run makes when no reasoner is configured.
MaxSteps == 3

\* ------------------------------------------------------------- terms
None == "None"
\* No file at a path.
Absent == [absent |-> TRUE]
\* Text that is not a Turtle statement (malformed, or cut off).
Garbage == <<"garbage">>

\* Namespace IRIs (stems).
NsA == "http://a/"
NsB == "http://b/"
NS == {NsA, NsB}
\* A namespace below NsA: the string NsAB starts with the string NsA.
NsAB == "http://a/b/"
\* The string x starts with the string y (x, y namespaces).
StartsWith(x, y) == x = y \/ (x = NsAB /\ y = NsA)

\* An IRI, split where rdflib's split_uri splits it: the namespace up to the
\* last "/" and the local name.
Iri(ns, local) == <<"iri", ns, local>>
IntLit(n) == <<"lit", n, "xsd:integer">>
\* A literal without datatype and language tag.
PlainLit(s) == <<"plain", s>>
\* A blank node.  In a Graph, scope and n are the BNode's id: the parse that
\* made it and its counter; in a document they are the label after "_:",
\* scope 0 for a label written by hand.
BNode(scope, n) == <<"bnode", scope, n>>

\* The triples the bounded runs draw their graphs from: predicates in both
\* namespaces, IRI and literal objects.
T1 == <<Iri(NsA, "toy"), Iri(NsA, "color"), Iri(NsA, "red")>>
T2 == <<Iri(NsA, "toy"), Iri(NsB, "size"), IntLit(1)>>
T3 == <<Iri(NsB, "box"), Iri(NsB, "size"), IntLit(2)>>
TripleUniverse == {T1, T2, T3}
\* What the queried documents add: a subject in the nested namespace, blank
\* nodes, a plain literal.
T4 == <<Iri(NsAB, "c"), Iri(NsA, "color"), Iri(NsA, "red")>>
T5 == <<BNode(0, 1), Iri(NsA, "color"), PlainLit("red")>>
T6 == <<BNode(0, 1), Iri(NsB, "size"), IntLit(1)>>
T7 == <<BNode(0, 2), Iri(NsA, "color"), PlainLit("red")>>

\* The namespace of a triple's predicate.
PredNs(t) == t[2][2]

\* A prefix is a base name and a number: <<"", 0>> is the default prefix ":",
\* <<"ex", 0>> is "ex:", <<"ns", 1>> is "ns1:", <<"default", 1>> "default1:".
DefaultPrefix == <<"", 0>>
\* The answer of a lookup that finds no prefix.
NoPrefix == <<None, 0>>
ExPrefix == <<"ex", 0>>
SubPrefix == <<"sub", 0>>

\* ------------------------------------------------- namespace mapping
\* A namespace mapping is a set of <<prefix, namespace>> pairs, one-to-one.
NsOf(nsm, prefix) ==
    IF \E b \in nsm : b[1] = prefix
    THEN (CHOOSE b \in nsm : b[1] = prefix)[2]
    ELSE None

PrefixOf(nsm, ns) ==
    IF \E b \in nsm : b[2] = ns
    THEN (CHOOSE b \in nsm : b[2] = ns)[1]
    ELSE NoPrefix

\* The store's bind with override=True: the prefix and the namespace lose
\* their former partners.
StoreBind(nsm, prefix, ns) ==
    {b \in nsm : b[1] # prefix /\ b[2] # ns} \cup {<<prefix, ns>>}

\* The smallest n >= 1 such that base n is unbound or bound to ns.
FreeNum(nsm, base, ns) ==
    CHOOSE n \in 1..(Cardinality(nsm) + 1) :
        /\ NsOf(nsm, <<base, n>>) \in {None, ns}
        /\ \A m \in 1..(n - 1) : NsOf(nsm, <<base, m>>) \notin {None, ns}

\* graph.bind(prefix, ns): NamespaceManager.bind with override=True,
\* replace=False.  A prefix taken by another namespace is numbered
\* ("" becomes default1); a namespace bound to another prefix is re-bound.
Bind(nsm, prefix, ns) ==
    LET bound == NsOf(nsm, prefix) IN
    IF bound # None /\ bound # ns
    THEN LET base == IF prefix[1] = "" THEN "default" ELSE prefix[1]
             n == FreeNum(nsm, base, ns)
         IN  IF NsOf(nsm, <<base, n>>) = ns
             THEN nsm
             ELSE StoreBind(nsm, <<base, n>>, ns)
    ELSE IF PrefixOf(nsm, ns) = prefix
         THEN nsm
         ELSE StoreBind(nsm, prefix, ns)


\* Every prefix declaration of a document, bound one after the other.
RECURSIVE BindAll(_, _)
BindAll(nsm, decls) ==
    IF decls = {}
    THEN nsm
    ELSE LET d == CHOOSE d \in decls : TRUE
         IN  BindAll(Bind(nsm, d[1], d[2]), decls \ {d})

\* compute_qname(uri, generate=True): a namespace without a prefix is bound
\* to the first free generated prefix ns1, ns2, ...
GenPrefix(nsm, ns) ==
    IF PrefixOf(nsm, ns) # NoPrefix
    THEN nsm
    ELSE Bind(nsm, <<"ns", FreeNum(nsm, "ns", None)>>, ns)

RECURSIVE GenAll(_, _)
GenAll(nsm, nss) ==
    IF nss = {}
    THEN nsm
    ELSE LET n == CHOOSE n \in nss : TRUE
         IN  GenAll(GenPrefix(nsm, n), nss \ {n})

\* --------------------------------------------------- Turtle documents
Doc(prefixes, stmts) == [prefixes |-> prefixes, stmts |-> stmts]
EmptyDoc == Doc({}, <<>>)

RECURSIVE SetToSeq(_)
SetToSeq(S) ==
    IF S = {}
    THEN <<>>
    ELSE LET x == CHOOSE x \in S : TRUE
         IN  <<x>> \o SetToSeq(S \ {x})

TermNs(term) == IF term[1] = "iri" THEN {term[2]} ELSE {}
UsedNs(triples) == UNION {TermNs(t[1]) \cup TermNs(t[2]) \cup TermNs(t[3]) : t \in triples}

\* ------------------------------------------------------ Graph objects
Graph(triples, ns) == [triples |-> triples, ns |-> ns]
\* Graph(): no triples, no user namespace bound.
NewGraph == Graph({}, {})
\* No Graph object.
Null == [null |-> TRUE]

\* What graph.serialize(format="turtle") does to the graph's own namespace
\* mapping: the serializer asks for a qname of every predicate with
\* generate=True, which binds a generated prefix on the graph.
SerializeBindings(g) == GenAll(g.ns, {PredNs(t) : t \in g.triples})

\* A serializer that writes one label for every blank node.
TurtleSerializeOneLabel(g) ==
    Doc({b \in SerializeBindings(g) : b[2] \in UsedNs(g.triples)},
        SetToSeq({<<IF t[1][1] = "bnode" THEN BNode(0, 1) ELSE t[1], t[2], t[3]>> :
                     t \in g.triples}))

\* The document graph.serialize writes: the prefixes in use and one statement
\* per triple, in the serializer's order.
TurtleSerialize(g) ==
    Doc({b \in SerializeBindings(g) : b[2] \in UsedNs(g.triples)},
        SetToSeq(g.triples))

\* The bytes on disk when the write fails after k statements: the statements
\* flushed so far, and with torn the beginning of the next one.
PartialDoc(doc, k, torn) ==
    Doc(doc.prefixes,
        SubSeq(doc.stmts, 1, k) \o (IF torn THEN <<Garbage>> ELSE <<>>))

\* The Turtle parser accepts a document iff every statement is Turtle.
ParseOk(doc) == \A i \in 1..Len(doc.stmts) : doc.stmts[i] # Garbage

\* The terms of a document in the order the parser meets them.
RECURSIVE FlatTerms(_)
FlatTerms(stmts) ==
    IF stmts = <<>>
    THEN <<>>
    ELSE (IF Head(stmts) = Garbage THEN <<>> ELSE Head(stmts)) \o FlatTerms(Tail(stmts))

\* The parser's counter when it meets the label b for the first time: the
\* number of distinct labels met up to there.
LabelCounter(flat, b) ==
    LET first == CHOOSE i \in 1..Len(flat) :
                     flat[i] = b /\ \A j \in 1..(i - 1) : flat[j] # b
    IN  Cardinality({flat[j] : j \in 1..first} \cap {flat[j] : j \in {k \in 1..Len(flat) : flat[k][1] = "bnode"}})

\* The parser makes one new BNode per label of the document: its id is made
\* of the parse's uuid and the counter, never of the label.
ParseTerm(term, flat, uuid) ==
    IF term[1] = "bnode" THEN BNode(uuid, LabelCounter(flat, term)) ELSE term

ParseStmt(st, flat, uuid) ==
    <<ParseTerm(st[1], flat, uuid), st[2], ParseTerm(st[3], flat, uuid)>>

\* A parser that loses the last statement of the document.
GraphParseSkipsLast(g, doc, uuid) ==
    Graph(g.triples \cup {ParseStmt(doc.stmts[i], FlatTerms(doc.stmts), uuid) :
                              i \in 1..(Len(doc.stmts) - 1)},
          BindAll(g.ns, doc.prefixes))

\* g.parse(file, format="turtle") on a document the parser accepts: the
\* triples are added to g and the declared prefixes are bound on g.  uuid
\* names this run of the parser.
GraphParse(g, doc, uuid) ==
    Graph(g.triples \cup {ParseStmt(doc.stmts[i], FlatTerms(doc.stmts), uuid) :
                              i \in 1..Len(doc.stmts)},
          BindAll(g.ns, doc.prefixes))

\* ----------------------------------------------------------- errors
NoErr == [type |-> None, msg |-> None, at |-> None, cause |-> None]
\* raise UserException(msg) [from cause]
UserException(msg, at, cause) ==
    [type |-> "UserException", msg |-> msg, at |-> at, cause |-> cause]
\* An exception that is not a UserException: a plain Exception, or one a
\* library raises (rdflib's BadSyntax, the OS's FileNotFoundError, OSError).
OtherException(type, msg, at) ==
    [type |-> type, msg |-> msg, at |-> at, cause |-> None]

\* ------------------------------------------------------- SPARQL engine
Var(name) == <<"var", name>>
\* The value of a variable a solution leaves unbound.
Unbound == <<"unbound">>

\* A query string, by what rdflib's SPARQL parser makes of it: its form, the
\* variables of the SELECT clause in the declared order, the triple patterns
\* of the WHERE clause and those of its OPTIONAL group; or the fault for
\* which prepareQuery raises ("syntax": not SPARQL, "prefix": a prefix the
\* query does not declare).
Query(text, form, vars, where, opt, fault) ==
    [text |-> text, form |-> form, vars |-> vars, where |-> where, opt |-> opt,
     fault |-> fault]

AnyTriple == <<Var("s"), Var("p"), Var("o")>>
\* ASK { a:toy a:color a:red }
AskRedToy == Query("ask-red-toy", "ASK", <<>>, {T1}, {}, None)
\* ASK { ?s ?p ?o }
AskAny == Query("ask-s-p-o", "ASK", <<>>, {AnyTriple}, {}, None)
\* SELECT ?s ?p ?o WHERE { ?s ?p ?o }
SelectSPO == Query("s-p-o", "SELECT", <<"s", "p", "o">>, {AnyTriple}, {}, None)
\* SELECT ?o ?s WHERE { ?s a:color ?o }
SelectOS ==
    Query("o-s", "SELECT", <<"o", "s">>, {<<Var("s"), Iri(NsA, "color"), Var("o")>>},
          {}, None)
\* SELECT ?s ?n WHERE { ?s ?p ?o OPTIONAL { ?s b:size ?n } }
SelectOptional ==
    Query("s-n-optional", "SELECT", <<"s", "n">>, {AnyTriple},
          {<<Var("s"), Iri(NsB, "size"), Var("n")>>}, None)
NotSparql == Query("not sparql", None, <<>>, {}, {}, "syntax")
UnknownPrefix == Query("unknown prefix", None, <<>>, {}, {}, "prefix")

AskQueries == {AskRedToy, AskAny, NotSparql, UnknownPrefix}
SelectQueries == {SelectSPO, SelectOS, SelectOptional, NotSparql, UnknownPrefix}

GraphTerms(g) == UNION {{t[1], t[2], t[3]} : t \in g.triples}
VarsIn(patterns) ==
    {pt[i][2] : <<pt, i>> \in {x \in patterns \X (1..3) : x[1][x[2]][1] = "var"}}
QueryVars(q) ==
    VarsIn(q.where) \cup VarsIn(q.opt) \cup {q.vars[i] : i \in 1..Len(q.vars)}

\* A triple pattern under a solution mapping.
Subst(pt, mu) ==
    [i \in 1..3 |-> IF pt[i][1] = "var" THEN mu[pt[i][2]] ELSE pt[i]]
Matches(patterns, mu, g) == \A pt \in patterns : Subst(pt, mu) \in g.triples

\* A matcher that compares no term: every pattern matches every triple.
BasicSolutionsAnyTriple(patterns, g) ==
    {[v \in VarsIn(patterns) |-> (CHOOSE t \in g.triples : TRUE)[1]] :
        c \in [patterns -> g.triples]}

\* The solutions of a basic graph pattern: one triple of g per pattern, equal
\* to it where the pattern has a term and the same wherever it has the same
\* variable.
BasicSolutions(patterns, g) ==
    LET slots == {x \in patterns \X (1..3) : x[1][x[2]][1] = "var"}
        fits == {c \in [patterns -> g.triples] :
                    /\ \A pt \in patterns, i \in 1..3 :
                          pt[i][1] = "var" \/ pt[i] = c[pt][i]
                    /\ \A x, y \in slots :
                          x[1][x[2]] = y[1][y[2]] => c[x[1]][x[2]] = c[y[1]][y[2]]}
    IN  {[v \in VarsIn(patterns) |->
             LET x == CHOOSE y \in slots : y[1][y[2]][2] = v
             IN  c[x[1]][x[2]]] : c \in fits}

\* The solutions of q's pattern in g: the mappings that match the WHERE
\* patterns, extended by the OPTIONAL group where it matches; a variable the
\* pattern does not bind is Unbound.
Solutions(q, g) ==
    LET wv == VarsIn(q.where)
        ov == VarsIn(q.opt) \ wv
        terms == GraphTerms(g)
        Join(mu, f) == [v \in QueryVars(q) |->
                           IF v \in wv THEN mu[v]
                           ELSE IF v \in DOMAIN f THEN f[v] ELSE Unbound]
        Extensions(mu) == {f \in [ov -> terms] : Matches(q.opt, Join(mu, f), g)}
    IN  UNION {IF Extensions(mu) = {}
               THEN {Join(mu, <<>>)}
               ELSE {Join(mu, f) : f \in Extensions(mu)} :
               mu \in BasicSolutions(q.where, g)}

\* Python values.  A str made of a blank node's id keeps the id.
PyNone == <<"none">>
PyNaN == <<"nan">>
PyBool(b) == <<"bool", b>>
PyInt(n) == <<"int", n>>
PyFloat(n) == <<"float", n>>
PyStr(s) == <<"str", s>>
PyBNodeStr(scope, n) == <<"bstr", scope, n>>

\* graph.query(sparql) on a query the parser accepts: the Result, with the
\* solutions in the engine's iteration order.
GraphQuery(g, q) ==
    [type |-> q.form,
     askAnswer |-> IF q.form = "ASK" THEN PyBool(Solutions(q, g) # {}) ELSE PyNone,
     vars |-> q.vars,
     bindings |-> IF q.form = "SELECT" THEN SetToSeq(Solutions(q, g)) ELSE <<>>]

\* What graph.query raises for a query the parser or the translation to the
\* algebra rejects: pyparsing's ParseException keeps the parsed string (pstr),
\* the Exception for an unknown prefix names the prefix only.
QueryFault(q) ==
    IF q.fault = "syntax"
    THEN OtherException("ParseException", q.text, "query")
    ELSE OtherException("Exception", "Unknown namespace prefix", "query")

\* --------------------------------------------------- ResultNormalizer
\* Iterating a Result yields ResultRow tuples: the values of a solution in the
\* order of the labels (the declared variables); a missing one is None.
\* The values in the reverse order.
ResultRowReversed(mu, labels) ==
    [i \in 1..Len(labels) |-> mu[labels[Len(labels) + 1 - i]]]

ResultRow(mu, labels) == [i \in 1..Len(labels) |-> mu[labels[i]]]

\* Literal.toPython / BNode.toPython
toPython(x) ==
    IF x[1] = "lit" /\ x[3] = "xsd:integer" THEN PyInt(x[2])
    ELSE IF x[1] = "plain" THEN PyStr(x[2])
    ELSE PyBNodeStr(x[2], x[3])

\* A get_value that has no string for a blank node.
get_value_bnode_none(x) ==
    IF x = Unbound \/ x[1] = "bnode" THEN PyNone
    ELSE IF x[1] = "iri" THEN x
    ELSE toPython(x)

get_value(x) ==
    IF x = Unbound THEN PyNone
    ELSE IF x[1] = "iri" THEN x
    ELSE toPython(x)

\* pandas infers the dtype of each column of a DataFrame built from rows: a
\* column of ints and None becomes float64 (the ints floats, None NaN); any
\* other column of the model keeps its objects.
PandasColumn(cells) ==
    IF /\ \E i \in 1..Len(cells) : cells[i][1] = "int"
       /\ \E i \in 1..Len(cells) : cells[i] = PyNone
       /\ \A i \in 1..Len(cells) : cells[i][1] \in {"int", "none"}
    THEN [i \in 1..Len(cells) |->
             IF cells[i] = PyNone THEN PyNaN ELSE PyFloat(cells[i][2])]
    ELSE cells

\* pd.DataFrame(data=rows, columns=columns)
DataFrame(data, columns) ==
    [columns |-> columns,
     data |-> [i \in 1..Len(data) |->
                 [j \in 1..Len(columns) |->
                     PandasColumn([k \in 1..Len(data) |-> data[k][j]])[i]]]]

sparql_result_to_df(results) ==
    DataFrame([i \in 1..Len(results.bindings) |->
                  [j \in 1..Len(results.vars) |->
                      get_value(ResultRow(results.bindings[i], results.vars)[j])]],
              results.vars)

\* The strings normalizeUri returns: "prefix:name" and "<iri>".
QName(prefix, name) == <<"qname", prefix, name>>
N3(iri) == <<"n3", iri[2], iri[3]>>

\* compute_qname(uri) with generate=True: the longest namespace of the trie
\* below the split namespace that the uri starts with, its prefix (a
\* generated one is bound when it has none), and the rest of the uri.
compute_qname(nsm, uri) ==
    LET split == uri[2]
        below == {b[2] : b \in {c \in nsm : StartsWith(c[2], split) /\ StartsWith(uri[2], c[2])}}
        namespace == IF below = {}
                     THEN split
                     ELSE CHOOSE n \in below : \A m \in below : StartsWith(n, m)
        bound == GenPrefix(nsm, namespace)
    IN  [prefix |-> PrefixOf(bound, namespace), name |-> uri[3], nsm |-> bound]

\* A normalizeUri without the look-up of the split namespace's prefix.
normalizeUriGenerates(nsm, uri) ==
    LET q == compute_qname(nsm, uri)
    IN  [str |-> QName(q.prefix, q.name), nsm |-> q.nsm]

\* nsm.normalizeUri(uri): "<uri>" when the namespace split_uri finds has no
\* prefix, else the qname compute_qname gives.  nsm is the mapping after it.
normalizeUri(nsm, uri) ==
    IF PrefixOf(nsm, uri[2]) = NoPrefix
    THEN [str |-> N3(uri), nsm |-> nsm]
    ELSE LET q == compute_qname(nsm, uri)
         IN  [str |-> QName(q.prefix, q.name), nsm |-> q.nsm]

\* convert_uri over the cells of a row, then over the rows
RECURSIVE convert_row(_, _)
convert_row(nsm, row) ==
    IF row = <<>>
    THEN [cells |-> <<>>, nsm |-> nsm]
    ELSE LET first == IF Head(row)[1] = "iri"
                      THEN normalizeUri(nsm, Head(row))
                      ELSE [str |-> Head(row), nsm |-> nsm]
             rest == convert_row(first.nsm, Tail(row))
         IN  [cells |-> <<first.str>> \o rest.cells, nsm |-> rest.nsm]

RECURSIVE convert_rows(_, _)
convert_rows(nsm, rows) ==
    IF rows = <<>>
    THEN [cells |-> <<>>, nsm |-> nsm]
    ELSE LET first == convert_row(nsm, Head(rows))
             rest == convert_rows(first.nsm, Tail(rows))
         IN  [cells |-> <<first.cells>> \o rest.cells, nsm |-> rest.nsm]

\* normalize_uris(df, nsm): df.map(convert_uri); nsm is the namespace manager
\* after the calls of normalizeUri.
normalize_uris(df, nsm) ==
    LET n == convert_rows(nsm, df.data)
    IN  [df |-> [columns |-> df.columns, data |-> n.cells], nsm |-> n.nsm]

\* A DataFrame as the value a call returned.
Table(df) == <<"table", df.columns, df.data>>

\* ------------------------------------------------------------ state
InPath == "in.ttl"
OutPath == "out.ttl"
\* The names tempfile.NamedTemporaryFile can pick.
TmpNames == {"tmp1", "tmp2"}
Paths == {InPath, OutPath} \cup TmpNames

\* What the input file is written from: asserted triples, and text that is
\* not Turtle.  T3 is what a reasoner can add (and what OldDoc holds).
Stmts == {T1, T2, Garbage}
Entailed == {T3}
SeqsUpTo(S, n) == UNION {[1..k -> S] : k \in 0..n}
PrefixChoices == {{}, {<<ExPrefix, NsA>>}, {<<DefaultPrefix, NsB>>}}
\* The documents the input file can hold when the run starts.
InputDocs == {Doc(px, st) : px \in PrefixChoices, st \in SeqsUpTo(Stmts, MaxStmts)}
\* What an earlier run left at the output path.
OldDoc == Doc({}, <<T3>>)

VARIABLES
    impl,       \* the package the caller imports: "helpers" or "legacy"
    robot,      \* os.getenv("ROBOT") is set and not empty
    defaultNs,  \* os.getenv("DEFAULT_NAMESPACE"), None when unset
    fs,         \* the file system: path -> document, or Absent
    heap,       \* the Graph objects the caller holds: id -> Graph, or Null
    calls,      \* API calls made so far; the call's number names its Graph()
    pc,         \* where the single thread is
    op,         \* the call in progress, or the last one
    arg,        \* the id of the graph passed to it (0: none)
    result,     \* infer_graph's / reason's local result
    tmpIn,      \* input_file.name while it is open
    tmpOut,     \* output_file.name while it is open
    child,      \* the reasoner subprocess: none, running, exited
    exitCode,   \* its exit status
    ret,        \* the id of the graph the last call returned (0: none)
    err,        \* the exception the last call raised
    pre,        \* the argument graph and the target file as the call began
    touched,    \* the call in progress has written to the file system
    main,       \* the __main__ block: running, caught, crashed
    sparql,     \* the query string passed to the last sparql_ask / sparql_select
    value,      \* what the last sparql_ask / sparql_select returned
    log,        \* the records logged at level ERROR, oldest first
    reasoner,   \* the reasoner name passed to the last infer_graph / reason
    argv,       \* the argument list of the call's subprocess.run (<<>>: none)
    steps       \* the steps the infer call has completed, oldest first

vars == <<impl, robot, defaultNs, fs, heap, calls, pc, op, arg, result, tmpIn,
          tmpOut, child, exitCode, ret, err, pre, touched, main, sparql, value,
          log, reasoner, argv, steps>>

\* No query was passed yet; nothing was returned by a query.
NoQuery == [text |-> None, form |-> None, vars |-> <<>>, where |-> {}, opt |-> {},
            fault |-> None]
NoValue == <<"novalue">>
\* No subprocess has exited in this call.
NoExit == "none"
NoOp == [name |-> None, impl |-> None, path |-> None]
Call(name, variant, path) == [name |-> name, impl |-> variant, path |-> path]
Snapshot(g, file) == [g |-> g, file |-> file]

Init ==
    /\ impl \in {"helpers", "legacy"}
    /\ robot \in BOOLEAN
    /\ defaultNs \in NS \cup {None}
    /\ \E din \in InputDocs \cup {Absent}, dout \in {Absent, OldDoc} :
          fs = [p \in Paths |-> IF p = InPath THEN din
                                ELSE IF p = OutPath THEN dout ELSE Absent]
    /\ heap = [i \in 1..MaxCalls |-> Null]
    /\ calls = 0
    /\ pc = "idle"
    /\ op = NoOp
    /\ arg = 0
    /\ result = Null
    /\ tmpIn = None
    /\ tmpOut = None
    /\ child = "none"
    /\ exitCode = NoExit
    /\ ret = 0
    /\ err = NoErr
    /\ pre = Snapshot(Null, Absent)
    /\ touched = FALSE
    /\ main = "running"
    /\ sparql = NoQuery
    /\ value = NoValue
    /\ log = <<>>
    /\ reasoner = None
    /\ argv = <<>>
    /\ steps = <<>>

\* The caller can make another call.
CanCall == pc = "idle" /\ main = "running" /\ calls + 1 \in DOMAIN heap
Held == {i \in DOMAIN heap : heap[i] # Null}

\* What every call sets as it begins.
Begin(name, path, g, file) ==
    /\ calls' = calls + 1
    /\ op' = Call(name, impl, path)
    /\ arg' = g
    /\ pre' = Snapshot(IF g = 0 THEN Null ELSE heap[g], file)
    /\ exitCode' = NoExit

\* ---------------------------------------------------------- TurtleStore
\* g = Graph(); g.parse(filename, format="turtle"); return g
ParseFile(filename) ==
    IF fs[filename] = Absent
    THEN /\ err' = OtherException("FileNotFoundError", filename, "parse")
         /\ ret' = 0
         /\ heap' = heap
    ELSE IF ~ParseOk(fs[filename])
    THEN /\ err' = OtherException("BadSyntax", filename, "parse")
         /\ ret' = 0
         /\ heap' = heap
    ELSE /\ err' = NoErr
         /\ ret' = calls + 1
         /\ heap' = [heap EXCEPT ![calls + 1] = GraphParse(NewGraph, fs[filename], calls + 1)]

\* helpers/ttl_helper.py read_ttl_kg (and kgworkflow/util/helper.py get_kg)
read_ttl_kg(filename) ==
    /\ impl = "helpers"
    /\ CanCall
    /\ Begin("read", filename, 0, fs[filename])
    /\ IF fs[filename] = Absent
       THEN /\ err' = UserException("The input Turtle file does not exist.", "exists", None)
            /\ ret' = 0
            /\ heap' = heap
       ELSE ParseFile(filename)
    /\ touched' = FALSE
    /\ UNCHANGED <<reasoner, argv, steps, sparql, value, log, impl, robot, defaultNs, fs, pc, result, tmpIn, tmpOut, child, main>>

\* util/kg.py get_kg: no check before the parse
get_kg(filename) ==
    /\ impl = "legacy"
    /\ CanCall
    /\ Begin("read", filename, 0, fs[filename])
    /\ ParseFile(filename)
    /\ touched' = FALSE
    /\ UNCHANGED <<reasoner, argv, steps, sparql, value, log, impl, robot, defaultNs, fs, pc, result, tmpIn, tmpOut, child, main>>

\* The default namespace is not bound on the caller's graph.
BindDefaultNotOnGraph(g, default_ns) == g

\* if default_ns: graph.bind("", default_ns)
BindDefault(g, default_ns) ==
    IF default_ns # None
    THEN [g EXCEPT !.ns = Bind(g.ns, DefaultPrefix, default_ns)]
    ELSE g

\* write_ttl(graph, filename, default_ns, base=None): bind, open(filename,
\* "wb"), serialize.  open truncates the file before the first byte is
\* written; a failure of open leaves the file as it was, a failure of the
\* serializer's writes leaves what was flushed.  wrap is what the handler
\* raises for the failure.
WriteTtlBody(g, filename, default_ns, variant) ==
    LET bound == BindDefault(heap[g], default_ns)
        doc == TurtleSerialize(bound)
        after == [bound EXCEPT !.ns = SerializeBindings(bound)]
        raised == IF variant = "helpers"
                  THEN UserException("Could not write graph", "write", "OSError")
                  ELSE OtherException("OSError", filename, "write")
    IN  \/ /\ fs' = [fs EXCEPT ![filename] = doc]
           /\ heap' = [heap EXCEPT ![g] = after]
           /\ err' = NoErr
           /\ touched' = TRUE
        \/ /\ fs' = fs
           /\ heap' = [heap EXCEPT ![g] = bound]
           /\ err' = raised
           /\ touched' = FALSE
        \/ \E k \in 0..Len(doc.stmts), torn \in BOOLEAN :
              /\ k < Len(doc.stmts) \/ (k = 0 /\ ~torn)
              /\ fs' = [fs EXCEPT ![filename] = PartialDoc(doc, k, torn)]
              /\ heap' = [heap EXCEPT ![g] = after]
              /\ err' = raised
              /\ touched' = TRUE

\* helpers/ttl_helper.py write_ttl (and kgworkflow/util/helper.py write_ttl)
write_ttl(g, filename, default_ns) ==
    /\ impl = "helpers"
    /\ CanCall
    /\ g \in Held
    /\ Begin("write", filename, g, fs[filename])
    /\ WriteTtlBody(g, filename, default_ns, "helpers")
    /\ ret' = 0
    /\ UNCHANGED <<reasoner, argv, steps, sparql, value, log, impl, robot, defaultNs, pc, result, tmpIn, tmpOut, child, main>>

\* util/kg.py write_ttl: the same without the try/except
kg_write_ttl(g, filename, default_ns) ==
    /\ impl = "legacy"
    /\ CanCall
    /\ g \in Held
    /\ Begin("write", filename, g, fs[filename])
    /\ WriteTtlBody(g, filename, default_ns, "legacy")
    /\ ret' = 0
    /\ UNCHANGED <<reasoner, argv, steps, sparql, value, log, impl, robot, defaultNs, pc, result, tmpIn, tmpOut, child, main>>

\* output_ttl(graph): default_ns from DEFAULT_NAMESPACE, base None
output_ttl(g) == write_ttl(g, OutPath, defaultNs)
kg_output_ttl(g) == kg_write_ttl(g, OutPath, defaultNs)

\* -------------------------------------------------------- ReasonerBridge
RobotNotSet == OtherException("Exception", "ROBOT environment variable not set", "getenv")

\* The reasoners a caller names: reasoner="hermit" is the default and what
\* zebra.py and the tests pass; ELK is the other one the docstring names.
ReasonerNames == {"hermit", "elk"}

\* The value given to --axiom-generators: one argument, the five generators
\* separated by blanks, with the double quotes of the Python literal in it.
AxiomGenerators == "\"SubClass EquivalentClass DisjointClasses ClassAssertion PropertyAssertion\""

\* The list with the paths the wrong way round.
RobotArgsSwapped(input_file, output_file, name) ==
    <<"ROBOT", "reason", "--input", output_file, "--output", input_file,
      "--create-new-ontology", "true", "--equivalent-classes-allowed", "all",
      "--include-indirect", "true", "--axiom-generators", AxiomGenerators,
      "--reasoner", name>>

\* The list subprocess.run is given; "ROBOT" stands for the value of the
\* environment variable.
RobotArgs(input_file, output_file, name) ==
    <<"ROBOT", "reason", "--input", input_file, "--output", output_file,
      "--create-new-ontology", "true", "--equivalent-classes-allowed", "all",
      "--include-indirect", "true", "--axiom-generators", AxiomGenerators,
      "--reasoner", name>>

\* helpers/reasoner_helper.py infer_graph, line 28: result = Graph()
infer_graph(g, name) ==
    /\ impl = "helpers"
    /\ CanCall
    /\ g \in Held
    /\ Begin("infer", None, g, Absent)
    /\ reasoner' = name
    /\ argv' = <<>>
    /\ steps' = <<>>
    /\ result' = NewGraph
    /\ pc' = "mk_input"
    /\ err' = NoErr
    /\ ret' = 0
    /\ touched' = FALSE
    /\ UNCHANGED <<sparql, value, log, impl, robot, defaultNs, fs, heap, tmpIn, tmpOut, child, main>>

\* util/kg.py reason, lines 56-61: ROBOT is read before anything else; when
\* it is not set the error is logged and a plain Exception raised.
reason(g, name) ==
    /\ impl = "legacy"
    /\ CanCall
    /\ g \in Held
    /\ Begin("infer", None, g, Absent)
    /\ reasoner' = name
    /\ argv' = <<>>
    /\ steps' = <<>>
    /\ ret' = 0
    /\ touched' = FALSE
    /\ IF ~robot
       THEN /\ err' = RobotNotSet
            /\ log' = Append(log, "ROBOT environment variable not set")
            /\ UNCHANGED <<result, pc>>
       ELSE /\ err' = NoErr
            /\ log' = log
            /\ result' = NewGraph
            /\ pc' = "mk_input"
    /\ UNCHANGED <<sparql, value, impl, robot, defaultNs, fs, heap, tmpIn, tmpOut, child, main>>

\* with tempfile.NamedTemporaryFile(suffix=".ttl", delete=True) as input_file:
\* an empty file under a name not in use
MkInputFile ==
    /\ pc = "mk_input"
    /\ \E n \in TmpNames :
          /\ fs[n] = Absent
          /\ fs' = [fs EXCEPT ![n] = EmptyDoc]
          /\ tmpIn' = n
    /\ touched' = TRUE
    /\ steps' = Append(steps, "create_input")
    /\ pc' = "mk_output"
    /\ UNCHANGED <<reasoner, argv, sparql, value, log, impl, robot, defaultNs, heap, calls, op, arg, result, tmpOut, child,
                   exitCode, ret, err, pre, main>>

\* with tempfile.NamedTemporaryFile(suffix=".ttl", delete=True) as output_file:
MkOutputFile ==
    /\ pc = "mk_output"
    /\ \E n \in TmpNames :
          /\ fs[n] = Absent
          /\ fs' = [fs EXCEPT ![n] = EmptyDoc]
          /\ tmpOut' = n
    /\ touched' = TRUE
    /\ steps' = Append(steps, "create_output")
    /\ pc' = "serialize"
    /\ UNCHANGED <<reasoner, argv, sparql, value, log, impl, robot, defaultNs, heap, calls, op, arg, result, tmpIn, child,
                   exitCode, ret, err, pre, main>>

\* graph.serialize(input_file.name, format="turtle"); input_file.flush()
\* The write can fail part way (the disk is full); the exception then
\* unwinds through both with blocks.
SerializeInput ==
    /\ pc = "serialize"
    /\ LET doc == TurtleSerialize(heap[arg])
           after == [heap[arg] EXCEPT !.ns = SerializeBindings(heap[arg])]
       IN  /\ heap' = [heap EXCEPT ![arg] = after]
           /\ \/ /\ fs' = [fs EXCEPT ![tmpIn] = doc]
                 /\ err' = NoErr
                 /\ steps' = Append(steps, "serialize")
                 /\ pc' = IF op.impl = "helpers" THEN "infer_file" ELSE "run"
              \/ \E k \in 0..Len(doc.stmts), torn \in BOOLEAN :
                    /\ k < Len(doc.stmts) \/ (k = 0 /\ ~torn)
                    /\ fs' = [fs EXCEPT ![tmpIn] = PartialDoc(doc, k, torn)]
                    /\ err' = OtherException("OSError", tmpIn, "serialize")
                    /\ steps' = steps
                    /\ pc' = "exit_output"
    /\ UNCHANGED <<reasoner, argv, sparql, value, log, impl, robot, defaultNs, calls, op, arg, result, tmpIn, tmpOut, child,
                   exitCode, ret, pre, touched, main>>

\* The check of ROBOT left out: subprocess.run is reached whatever it holds.
infer_fileUnchecked ==
    /\ pc = "infer_file"
    /\ pc' = "run"
    /\ UNCHANGED <<reasoner, argv, steps, sparql, value, log, fs, impl, robot, defaultNs, heap, calls, op,
                   arg, result, tmpIn, tmpOut, child, exitCode, ret, err, pre, touched,
                   main>>

\* infer_file, lines 54-59: ROBOT = os.getenv("ROBOT"); if not ROBOT: log the
\* error and raise
infer_file ==
    /\ pc = "infer_file"
    /\ IF ~robot
       THEN /\ err' = RobotNotSet
            /\ log' = Append(log, "ROBOT environment variable not set. You can configure it in .env.")
            /\ pc' = "exit_output"
       ELSE /\ err' = err
            /\ log' = log
            /\ pc' = "run"
    /\ UNCHANGED <<reasoner, argv, steps, sparql, value, impl, robot, defaultNs, fs, heap, calls, op, arg, result, tmpIn, tmpOut,
                   child, exitCode, ret, pre, touched, main>>

\* subprocess.run([ROBOT, "reason", "--input", input_file, "--output",
\* output_file, ...], capture_output=True, text=True): the child is started
\* and the caller blocks; an executable that cannot be started raises.
SubprocessRun ==
    /\ pc = "run"
    /\ argv' = RobotArgs(tmpIn, tmpOut, reasoner)
    /\ \/ /\ child' = "running"
          /\ steps' = Append(steps, "start")
          /\ pc' = "wait"
          /\ err' = err
       \/ /\ child' = child
          /\ steps' = steps
          /\ pc' = "exit_output"
          /\ err' = OtherException("OSError", "ROBOT", "subprocess.run")
    /\ UNCHANGED <<reasoner, sparql, value, log, impl, robot, defaultNs, fs, heap, calls, op, arg, result, tmpIn, tmpOut,
                   exitCode, ret, pre, touched, main>>

\* What the reasoner can leave at the output path: the input's triples with
\* the entailed ones, the entailed ones alone (a new ontology), text that is
\* not Turtle, or the empty file it was given.
ReasonerWrites(input) ==
    LET asserted == {input.stmts[i] : i \in 1..Len(input.stmts)}
    IN  {Doc(input.prefixes, SetToSeq(asserted \cup Entailed)),
         Doc(input.prefixes, SetToSeq(Entailed)),
         Doc({}, <<Garbage>>),
         EmptyDoc}

\* The reasoner process: it writes the output file, or removes it, and exits
\* with a status.
Reasoner ==
    /\ child = "running"
    /\ \E code \in {"0", "1"} :
          /\ exitCode' = code
          /\ \/ \E d \in ReasonerWrites(fs[tmpIn]) : fs' = [fs EXCEPT ![tmpOut] = d]
             \/ fs' = [fs EXCEPT ![tmpOut] = Absent]
    /\ child' = "exited"
    /\ steps' = Append(steps, "child_exit")
    /\ UNCHANGED <<reasoner, argv, sparql, value, log, impl, robot, defaultNs, heap, calls, pc, op, arg, result, tmpIn, tmpOut,
                   ret, err, pre, touched, main>>

\* subprocess.run returns once the child has exited; its CompletedProcess
\* (returncode, stdout, stderr) is dropped.
\* Popen without wait: the caller goes on while the child runs.
SubprocessReturnNoWait ==
    /\ pc = "wait"
    /\ steps' = Append(steps, "return")
    /\ pc' = "parse"
    /\ UNCHANGED <<reasoner, argv, sparql, value, log, child, impl, robot, defaultNs, fs, heap, calls, op,
                   arg, result, tmpIn, tmpOut, exitCode, ret, err, pre, touched, main>>

SubprocessReturn ==
    /\ pc = "wait"
    /\ child = "exited"
    /\ child' = "none"
    /\ steps' = Append(steps, "return")
    /\ pc' = "parse"
    /\ UNCHANGED <<reasoner, argv, sparql, value, log, impl, robot, defaultNs, fs, heap, calls, op, arg, result, tmpIn, tmpOut,
                   exitCode, ret, err, pre, touched, main>>

\* graph.parse instead of result.parse: the output is read into the input.
ParseOutputIntoInput ==
    /\ pc = "parse"
    /\ IF fs[tmpOut] = Absent
       THEN /\ err' = OtherException("FileNotFoundError", tmpOut, "parse")
            /\ heap' = heap
       ELSE IF ~ParseOk(fs[tmpOut])
       THEN /\ err' = OtherException("BadSyntax", tmpOut, "parse")
            /\ heap' = heap
       ELSE /\ err' = err
            /\ heap' = [heap EXCEPT ![arg] = GraphParse(heap[arg], fs[tmpOut], calls)]
    /\ steps' = Append(steps, "parse")
    /\ pc' = "exit_output"
    /\ UNCHANGED <<reasoner, argv, sparql, value, log, impl, robot, defaultNs, fs, calls, op, arg, result, tmpIn, tmpOut,
                   child, exitCode, ret, pre, touched, main>>

\* result.parse(output_file.name, format="turtle")
ParseOutput ==
    /\ pc = "parse"
    /\ IF fs[tmpOut] = Absent
       THEN /\ err' = OtherException("FileNotFoundError", tmpOut, "parse")
            /\ result' = result
       ELSE IF ~ParseOk(fs[tmpOut])
       THEN /\ err' = OtherException("BadSyntax", tmpOut, "parse")
            /\ result' = result
       ELSE /\ err' = err
            /\ result' = GraphParse(result, fs[tmpOut], calls)
    /\ steps' = Append(steps, "parse")
    /\ pc' = "exit_output"
    /\ UNCHANGED <<reasoner, argv, sparql, value, log, impl, robot, defaultNs, fs, heap, calls, op, arg, tmpIn, tmpOut, child,
                   exitCode, ret, pre, touched, main>>

\* The file is closed and its name is kept (delete=False).
UnlinkSkipped(files, name) == files

\* NamedTemporaryFile(delete=True): closing the file unlinks its name.
Unlink(files, name) == [files EXCEPT ![name] = Absent]

\* Leaving the inner with block, normally or by an exception: output_file is
\* closed and its name unlinked.
ExitOutput ==
    /\ pc = "exit_output"
    /\ fs' = Unlink(fs, tmpOut)
    /\ tmpOut' = None
    /\ steps' = Append(steps, "delete_output")
    /\ pc' = "exit_input"
    /\ UNCHANGED <<reasoner, argv, sparql, value, log, impl, robot, defaultNs, heap, calls, op, arg, result, tmpIn, child,
                   exitCode, ret, err, pre, touched, main>>

\* Leaving the outer with block: input_file is closed and its name unlinked;
\* then return result, or the exception reaches the caller.
ExitInput ==
    /\ pc = "exit_input"
    /\ fs' = Unlink(fs, tmpIn)
    /\ tmpIn' = None
    /\ pc' = "idle"
    /\ IF err = NoErr
       THEN /\ heap' = [heap EXCEPT ![calls] = result]
            /\ ret' = calls
       ELSE /\ heap' = heap
            /\ ret' = 0
    /\ result' = Null
    /\ steps' = Append(steps, "delete_input")
    /\ UNCHANGED <<reasoner, argv, sparql, value, log, impl, robot, defaultNs, calls, op, arg, tmpOut, child, exitCode, err,
                   pre, touched, main>>

\* ---------------------------------------------------------- SparqlEngine
QueryFailed == "The SPARQL query failed to execute."

\* helpers/sparql_helper.py sparql_ask: graph.query in a try; the handler
\* logs the exception at INFO and the query at ERROR and raises UserException
\* with a fixed message, from the exception.
sparql_ask(g, q) ==
    /\ impl = "helpers"
    /\ CanCall
    /\ g \in Held
    /\ Begin("ask", None, g, Absent)
    /\ sparql' = q
    /\ IF q.fault # None
       THEN /\ log' = Append(log, q.text)
            /\ err' = UserException(QueryFailed, "query", QueryFault(q).type)
            /\ value' = NoValue
       ELSE /\ log' = log
            /\ err' = NoErr
            /\ value' = GraphQuery(heap[g], q).askAnswer
    /\ ret' = 0
    /\ touched' = FALSE
    /\ UNCHANGED <<reasoner, argv, steps, impl, robot, defaultNs, fs, heap, pc, result, tmpIn, tmpOut, child, main>>

\* util/kg.py sparql_ask: no handler
kg_sparql_ask(g, q) ==
    /\ impl = "legacy"
    /\ CanCall
    /\ g \in Held
    /\ Begin("ask", None, g, Absent)
    /\ sparql' = q
    /\ IF q.fault # None
       THEN /\ err' = QueryFault(q)
            /\ value' = NoValue
       ELSE /\ err' = NoErr
            /\ value' = GraphQuery(heap[g], q).askAnswer
    /\ ret' = 0
    /\ touched' = FALSE
    /\ UNCHANGED <<reasoner, argv, steps, impl, robot, defaultNs, fs, heap, pc, result, tmpIn, tmpOut, child, main,
                   log>>

\* sparql_result_to_df, then normalize_uris with the graph's own namespace
\* manager, which the calls of normalizeUri can bind prefixes on.
SelectBody(g, q) ==
    LET df == sparql_result_to_df(GraphQuery(heap[g], q))
        n == normalize_uris(df, heap[g].ns)
    IN  /\ value' = Table(n.df)
        /\ heap' = [heap EXCEPT ![g].ns = n.nsm]
        /\ err' = NoErr

\* helpers/sparql_helper.py sparql_select (to_df=True)
sparql_select(g, q) ==
    /\ impl = "helpers"
    /\ CanCall
    /\ g \in Held
    /\ Begin("select", None, g, Absent)
    /\ sparql' = q
    /\ IF q.fault # None
       THEN /\ log' = Append(log, q.text)
            /\ err' = UserException(QueryFailed, "query", QueryFault(q).type)
            /\ value' = NoValue
            /\ heap' = heap
       ELSE /\ log' = log
            /\ SelectBody(g, q)
    /\ ret' = 0
    /\ touched' = FALSE
    /\ UNCHANGED <<reasoner, argv, steps, impl, robot, defaultNs, fs, pc, result, tmpIn, tmpOut, child, main>>

\* util/kg.py sparql_select: no handler
kg_sparql_select(g, q) ==
    /\ impl = "legacy"
    /\ CanCall
    /\ g \in Held
    /\ Begin("select", None, g, Absent)
    /\ sparql' = q
    /\ IF q.fault # None
       THEN /\ err' = QueryFault(q)
            /\ value' = NoValue
            /\ heap' = heap
       ELSE SelectBody(g, q)
    /\ ret' = 0
    /\ touched' = FALSE
    /\ UNCHANGED <<reasoner, argv, steps, impl, robot, defaultNs, fs, pc, result, tmpIn, tmpOut, child, main, log>>

\* ------------------------------------------------------------ top level
\* zebra.py / kgworkflow/sparql_select.py:
\*   try: main()  except UserException as e: logger.error(e)
MainExcept ==
    /\ pc = "idle"
    /\ main = "running"
    /\ err # NoErr
    /\ main' = IF err.type = "UserException" THEN "caught" ELSE "crashed"
    /\ log' = IF err.type = "UserException" THEN Append(log, err.msg) ELSE log
    /\ UNCHANGED <<reasoner, argv, steps, sparql, value, impl, robot, defaultNs, fs, heap, calls, pc, op, arg, result, tmpIn,
                   tmpOut, child, exitCode, ret, err, pre, touched>>

\* The status the interpreter exits with: 1 after an exception nothing caught
\* (the traceback), 0 when the script runs to its end, which it also does
\* after the handler has logged the UserException.
ProcessExitStatus(m) == IF m = "crashed" THEN 1 ELSE 0

Next ==
    \/ \E f \in {InPath, OutPath} : read_ttl_kg(f)
    \/ \E f \in {InPath, OutPath} : get_kg(f)
    \/ \E g \in DOMAIN heap : output_ttl(g)
    \/ \E g \in DOMAIN heap : kg_output_ttl(g)
    \/ \E g \in DOMAIN heap, name \in ReasonerNames : infer_graph(g, name)
    \/ \E g \in DOMAIN heap, name \in ReasonerNames : reason(g, name)
    \/ MkInputFile
    \/ MkOutputFile
    \/ SerializeInput
    \/ infer_file
    \/ SubprocessRun
    \/ Reasoner
    \/ SubprocessReturn
    \/ ParseOutput
    \/ ExitOutput
    \/ ExitInput
    \/ MainExcept

Spec == Init /\ [][Next]_vars

\* The steps of the calling thread always go on; the reasoner is another
\* process and nothing makes it exit: subprocess.run is called without a
\* timeout and infer_graph has no parameter for one.
FairSpec ==
    /\ Spec
    /\ WF_vars(MkInputFile)
    /\ WF_vars(MkOutputFile)
    /\ WF_vars(SerializeInput)
    /\ WF_vars(infer_file)
    /\ WF_vars(SubprocessRun)
    /\ WF_vars(SubprocessReturn)
    /\ WF_vars(ParseOutput)
    /\ WF_vars(ExitOutput)
    /\ WF_vars(ExitInput)

\* ------------------------------------------------------- the query runs
\* The runs of kgworkflow/sparql_select.py, src/sparql_select.py and the tests:
\* a Turtle file is read, graphs are written and read back, and queries are
\* asked.  No reasoner is configured.
QueryStmts == {T1, T4, T5, T6, T7}
QueryPrefixes == {{}, {<<ExPrefix, NsA>>}, {<<ExPrefix, NsA>>, <<SubPrefix, NsAB>>}}
\* The documents to query: up to MaxStmts different statements, in one order.
QueryDocs ==
    {Doc(px, SetToSeq(st)) :
        px \in QueryPrefixes,
        st \in {x \in SUBSET QueryStmts : Cardinality(x) <= MaxStmts}}

QueryInit ==
    /\ impl \in {"helpers", "legacy"}
    /\ robot = FALSE
    /\ defaultNs \in {NsB, None}
    /\ \E din \in QueryDocs :
          fs = [p \in Paths |-> IF p = InPath THEN din ELSE Absent]
    /\ heap = [i \in 1..MaxSteps |-> Null]
    /\ calls = 0
    /\ pc = "idle"
    /\ op = NoOp
    /\ arg = 0
    /\ result = Null
    /\ tmpIn = None
    /\ tmpOut = None
    /\ child = "none"
    /\ exitCode = NoExit
    /\ ret = 0
    /\ err = NoErr
    /\ pre = Snapshot(Null, Absent)
    /\ touched = FALSE
    /\ main = "running"
    /\ sparql = NoQuery
    /\ value = NoValue
    /\ log = <<>>
    /\ reasoner = None
    /\ argv = <<>>
    /\ steps = <<>>

QueryNext ==
    \/ \E f \in {InPath, OutPath} : read_ttl_kg(f)
    \/ \E f \in {InPath, OutPath} : get_kg(f)
    \/ \E g \in DOMAIN heap : output_ttl(g)
    \/ \E g \in DOMAIN heap : kg_output_ttl(g)
    \/ \E g \in DOMAIN heap, q \in AskQueries : sparql_ask(g, q)
    \/ \E g \in DOMAIN heap, q \in AskQueries : kg_sparql_ask(g, q)
    \/ \E g \in DOMAIN heap, q \in SelectQueries : sparql_select(g, q)
    \/ \E g \in DOMAIN heap, q \in SelectQueries : kg_sparql_select(g, q)
    \/ MainExcept

QuerySpec == QueryInit /\ [][QueryNext]_vars

\* ---------------------------------------------------------------- claims
InferDone == op.name = "infer" /\ pc = "idle"
WriteDone == op.name = "write" /\ pc = "idle"
ReadDone == op.name = "read" /\ pc = "idle"
TriplesOf(doc) == {doc.stmts[i] : i \in 1..Len(doc.stmts)}

\* C1: without ROBOT, infer fails with the configuration error and has written
\* nothing to the file system by then: no temporary file was created and the
\* input graph was not serialized.
C1_NoFsWriteBeforeConfigError ==
    (op.name = "infer" /\ ~robot) =>
        /\ ~touched
        /\ pc = "idle" => (err = RobotNotSet /\ ret = 0)

\* C2: when the reasoner exits with a nonzero status, infer raises and returns
\* no graph.
C2_NonzeroExitRaises ==
    (InferDone /\ exitCode = "1") => (ret = 0 /\ err # NoErr)

\* C3: once infer has returned or raised, neither temporary file exists, on
\* any exit path and after any sequence of calls.
C3_NoTempFileLeft ==
    pc = "idle" => \A n \in TmpNames : fs[n] = Absent

\* A call of infer that created both files and failed while parsing the
\* reasoner's output has ended.
C3_Witness ==
    /\ InferDone
    /\ touched
    /\ err.type = "BadSyntax"

\* C4: the graph infer returns holds every triple of its input.
C4_ResultSuperset ==
    (InferDone /\ ret # 0) => pre.g.triples \subseteq heap[ret].triples

\* C5 as claimed: after infer the input's triple set and namespace mapping
\* are what they were, and the returned graph is another object.
C5_InputUnchanged ==
    InferDone => (heap[arg] = pre.g /\ (ret # 0 => ret # arg))

\* C5 as amended: during and after infer the input keeps its triple set and
\* every namespace binding it had; it can only gain generated prefixes
\* (ns1, ns2, ...); the returned graph is another object.
C5_InputKeepsTriples ==
    op.name = "infer" =>
        /\ heap[arg].triples = pre.g.triples
        /\ pre.g.ns \subseteq heap[arg].ns
        /\ \A b \in heap[arg].ns \ pre.g.ns : b[1][1] = "ns"
        /\ (pc = "idle" /\ ret # 0) => (ret # arg /\ heap[ret] # Null)

\* infer has returned a graph and its input has gained a generated prefix.
C5_Witness ==
    /\ InferDone
    /\ ret # 0
    /\ heap[arg].ns # pre.g.ns

\* C6 as claimed: after a write with a default namespace, the graph's triples
\* and namespace mapping are the same as before the call.
C6_WriteLeavesGraph ==
    (WriteDone /\ defaultNs # None /\ err = NoErr) => heap[arg] = pre.g

\* C6 as amended: a write with a default namespace leaves the triple set as
\* it was and leaves the default namespace bound on the graph, to ":" or,
\* when ":" was taken by another namespace, to a numbered "default" prefix.
C6_DefaultNsStaysBound ==
    (WriteDone /\ defaultNs # None) =>
        /\ heap[arg].triples = pre.g.triples
        /\ PrefixOf(heap[arg].ns, defaultNs)[1] \in {"", "default"}

\* A write with a default namespace has returned and the graph's namespace
\* mapping is no longer what it was.
C6_Witness ==
    /\ WriteDone
    /\ defaultNs # None
    /\ err = NoErr
    /\ heap[arg].ns # pre.g.ns
    /\ PrefixOf(pre.g.ns, defaultNs) = NoPrefix

\* C7: a write that fails raises a UserException (the WriteError) and leaves
\* at the path the complete previous content (or no file) or a complete new
\* serialization.
C7_WriteNeverPartial ==
    (WriteDone /\ err # NoErr) =>
        /\ err.type = "UserException"
        /\ fs[op.path] \in {pre.file, TurtleSerialize(heap[arg])}

\* C8: read of a path that does not exist raises the UserException naming the
\* file before the parser is called, and returns no graph.
C8_ReadMissingIsNotFound ==
    (ReadDone /\ pre.file = Absent) =>
        /\ ret = 0
        /\ err.type = "UserException"
        /\ err.at # "parse"

\* C9: read of an existing file that is not Turtle returns no graph and fails
\* with an error the top-level caller reports as a user-facing failure.
C9_ParseErrorIsUserFacing ==
    (ReadDone /\ pre.file # Absent /\ ~ParseOk(pre.file)) =>
        /\ ret = 0
        /\ err # NoErr
        /\ main # "crashed"

\* C10: read of an existing Turtle file succeeds; a file of zero triples
\* gives a graph of zero triples and a file with a triple a non-empty graph.
C10_ReadEmptyAndNonEmpty ==
    (ReadDone /\ pre.file # Absent /\ ParseOk(pre.file)) =>
        /\ err = NoErr
        /\ ret # 0
        /\ TriplesOf(pre.file) = {} => heap[ret].triples = {}
        /\ TriplesOf(pre.file) # {} => heap[ret].triples # {}

\* read of an existing file without a triple has returned a graph.
C10_Witness ==
    /\ ReadDone
    /\ pre.file # Absent
    /\ pre.file.stmts = <<>>
    /\ ret # 0

QueryDone == op.name \in {"ask", "select"} /\ pc = "idle"

\* C11: ask and select of a query that is not valid SPARQL, or that the engine
\* does not support, return no value and raise the UserException (the
\* QueryError) whose message carries the text of the query.
C11_QueryErrorCarriesText ==
    (QueryDone /\ sparql.fault # None) =>
        /\ value = NoValue
        /\ err.type = "UserException"
        /\ err.msg = sparql.text

SelectDone == op.name = "select" /\ pc = "idle" /\ err = NoErr
\* The cells of the table a select returned.
CellsOf(table) ==
    {table[3][i][j] : <<i, j>> \in {x \in (1..Len(table[3])) \X (1..Len(table[2])) : TRUE}}

\* C12: a call of ask or select, successful or failing, leaves every graph's
\* triple set and namespace mapping as they were, so any sequence of them
\* does.
C12_QueriesReadOnly ==
    [][(calls' # calls /\ op'.name \in {"ask", "select"}) => heap' = heap]_vars

\* After a failed query, a select has returned a table with an IRI whose
\* namespace has no prefix.
C12_Witness ==
    /\ SelectDone
    /\ main = "running"
    /\ Len(log) = 1
    /\ \E c \in CellsOf(value) : c[1] = "n3"

AskDone == op.name = "ask" /\ pc = "idle" /\ sparql.fault = None
\* q's pattern has a solution in g: some assignment of terms of g to its
\* variables turns every pattern into a triple of g.
HasSolution(q, g) ==
    \E mu \in [VarsIn(q.where) -> GraphTerms(g)] : Matches(q.where, mu, g)

\* C13: ask returns true exactly when the query's pattern has a solution in
\* the graph: false on an empty graph, false on a graph lacking the triples
\* the query needs, true on a graph that holds them.
C13_AskIffSolution ==
    AskDone =>
        /\ err = NoErr
        /\ value = PyBool(HasSolution(sparql, heap[arg]))
        /\ heap[arg].triples = {} => value = PyBool(FALSE)
        /\ ~(sparql.where \subseteq heap[arg].triples) /\ sparql = AskRedToy
              => value = PyBool(FALSE)
        /\ sparql.where \subseteq heap[arg].triples => value = PyBool(TRUE)

\* ask-red-toy has returned false on a graph that holds other triples.
C13_Witness ==
    /\ AskDone
    /\ sparql = AskRedToy
    /\ heap[arg].triples # {}
    /\ value = PyBool(FALSE)

\* The solutions select's table was made from, in the row order, and the
\* term the i-th of them binds to the j-th declared variable (Unbound: none).
BindingsOf(q, g) == GraphQuery(g, q).bindings
TermAt(b, q, i, j) == b[i][q.vars[j]]
CellAt(table, i, j) == table[3][i][j]
IsNull(cell) == cell \in {PyNone, PyNaN}

\* The cell is a rendering of the term x under the namespace mapping nsm.
CellFrom(cell, x, nsm) ==
    IF x = Unbound THEN IsNull(cell)
    ELSE IF x[1] = "iri"
    THEN /\ cell[1] \in {"qname", "n3"}
         /\ cell[3] = x[3]
         /\ cell[1] = "n3" => cell[2] = x[2]
         /\ cell[1] = "qname" => NsOf(nsm, cell[2]) = x[2]
    ELSE IF x[1] = "lit" THEN cell \in {PyInt(x[2]), PyFloat(x[2])}
    ELSE IF x[1] = "plain" THEN cell = PyStr(x[2])
    ELSE cell = PyBNodeStr(x[2], x[3])

\* C14: the table of a select has one column per variable of the SELECT
\* clause, in the declared order, also when it has no row, and one row per
\* solution; each cell of a row renders the term the row's solution binds to
\* the variable of the cell's column.
C14_ColumnsInDeclaredOrder ==
    SelectDone =>
        LET b == BindingsOf(sparql, pre.g)
        IN  /\ value[2] = sparql.vars
            /\ Len(value[3]) = Len(b)
            /\ \A i \in 1..Len(value[3]) :
                  /\ Len(value[3][i]) = Len(sparql.vars)
                  /\ \A j \in 1..Len(sparql.vars) :
                        CellFrom(CellAt(value, i, j), TermAt(b, sparql, i, j),
                                 pre.g.ns)

\* The select that declares ?o before ?s has returned a row.
C14_Witness ==
    /\ SelectDone
    /\ sparql = SelectOS
    /\ Len(value[3]) >= 1

\* The string of an absolute IRI itself, without angle brackets.
AbsoluteIri(x) == <<"abs", x[2], x[3]>>
\* The bindings of nsm whose namespace the IRI x starts with.
MatchingStems(nsm, x) == {b \in nsm : StartsWith(x[2], b[2])}

\* C15: in the table of a select, an IRI is rendered with the prefix of the
\* longest namespace of the mapping that the IRI starts with, and as the
\* absolute IRI string itself when it starts with none.
C15_LongestStemOrAbsolute ==
    SelectDone =>
        LET b == BindingsOf(sparql, pre.g)
        IN  \A i \in 1..Len(value[3]), j \in 1..Len(sparql.vars) :
                LET x == TermAt(b, sparql, i, j)
                    cell == CellAt(value, i, j)
                    stems == MatchingStems(pre.g.ns, x)
                IN  (x # Unbound /\ x[1] = "iri") =>
                        IF stems = {}
                        THEN cell = AbsoluteIri(x)
                        ELSE /\ cell[1] = "qname"
                             /\ \E s \in stems :
                                   /\ cell[2] = s[1]
                                   /\ \A c \in stems : StartsWith(s[2], c[2])

\* C16: in the table of a select, a literal with the integer datatype is a
\* native integer, a literal without datatype is a string, and every cell
\* that is not an IRI is what sparql_result_to_df made of it.
C16_LiteralsToNative ==
    SelectDone =>
        LET b == BindingsOf(sparql, pre.g)
        IN  \A i \in 1..Len(value[3]), j \in 1..Len(sparql.vars) :
                LET x == TermAt(b, sparql, i, j)
                    cell == CellAt(value, i, j)
                IN  /\ (x # Unbound /\ x[1] = "lit") => cell = PyInt(x[2])
                    /\ (x # Unbound /\ x[1] = "plain") => cell = PyStr(x[2])

\* The cells of the table with their terms.
Slots(table) == (1..Len(table[3])) \X (1..Len(table[2]))

\* C17: in the table of a select, a blank node is a string that is not null,
\* the same for the same blank node and different for different blank nodes
\* of the result set, and a cell is null exactly where the row leaves the
\* variable unbound.
C17_BlankNodesOpaque ==
    SelectDone =>
        LET b == BindingsOf(sparql, pre.g)
        IN  /\ \A s \in Slots(value) :
                  LET x == TermAt(b, sparql, s[1], s[2])
                      cell == CellAt(value, s[1], s[2])
                  IN  /\ IsNull(cell) <=> x = Unbound
                      /\ (x # Unbound /\ x[1] = "bnode") => cell[1] = "bstr"
            /\ \A s, t \in Slots(value) :
                  LET x == TermAt(b, sparql, s[1], s[2])
                      y == TermAt(b, sparql, t[1], t[2])
                  IN  (x # Unbound /\ y # Unbound /\ x[1] = "bnode" /\ y[1] = "bnode") =>
                          (CellAt(value, s[1], s[2]) = CellAt(value, t[1], t[2]) <=> x = y)

\* A select has returned a table with two different blank nodes and an
\* unbound cell.
C17_Witness ==
    /\ SelectDone
    /\ \E c, d \in CellsOf(value) : c[1] = "bstr" /\ d[1] = "bstr" /\ c # d
    /\ \E c \in CellsOf(value) : IsNull(c)

\* The graph of call 1 (read from the input file) was written to the output
\* path in full, and the output path has been read.
RoundTripDone ==
    /\ ReadDone
    /\ op.path = OutPath
    /\ heap[1] # Null
    /\ pre.file = TurtleSerialize(heap[1])

BNodesOf(triples) == {x \in UNION {{t[1], t[3]} : t \in triples} : x[1] = "bnode"}
RenameTerm(x, f) == IF x[1] = "bnode" THEN f[x] ELSE x
\* The two triple sets are the same up to a one-to-one renaming of blank nodes.
Isomorphic(A, B) ==
    \E f \in [BNodesOf(A) -> BNodesOf(B)] :
        /\ \A x, y \in BNodesOf(A) : f[x] = f[y] => x = y
        /\ {<<RenameTerm(t[1], f), t[2], RenameTerm(t[3], f)>> : t \in A} = B

\* C18 as claimed: reading a valid Turtle document, writing the graph and
\* reading the written file gives a graph with the identical set of triples.
C18_RoundTripIdentical ==
    RoundTripDone =>
        /\ err = NoErr
        /\ ret # 0
        /\ heap[ret].triples = heap[1].triples

\* C18 as amended: the second read succeeds and gives the same set of triples
\* up to a one-to-one renaming of blank nodes, and the identical set when the
\* document has no blank node.
C18_RoundTripUpToBlankNodes ==
    RoundTripDone =>
        /\ err = NoErr
        /\ ret # 0
        /\ Isomorphic(heap[1].triples, heap[ret].triples)
        /\ BNodesOf(heap[1].triples) = {} => heap[ret].triples = heap[1].triples

\* A document with two blank nodes has made the round trip.
C18_Witness ==
    /\ RoundTripDone
    /\ ret # 0
    /\ Cardinality(BNodesOf(heap[1].triples)) = 2
    /\ Cardinality(heap[ret].triples) = 2

\* C19: every call of infer returns or raises, also when the reasoner process
\* never exits: the wait for it ends (by the timeout), and then no temporary
\* file is left.
C19_InferEnds ==
    (op.name = "infer" /\ pc # "idle") ~> (pc = "idle" /\ \A n \in TmpNames : fs[n] = Absent)

\* C20: when a UserException reaches the __main__ block, one message is
\* logged and the process exits with a nonzero status; any other exception
\* is not caught there.
C20_UserFailureExitsNonzero ==
    /\ main = "caught" =>
          /\ err.type = "UserException"
          /\ log = <<err.msg>>
          /\ ProcessExitStatus(main) # 0
    /\ (main # "running" /\ err.type # "UserException") => main = "crashed"

\* How many times the infer call has completed the step.
Count(seq, x) == Cardinality({i \in DOMAIN seq : seq[i] = x})
\* The argument that follows the option in the list.
Option(args, flag) == args[(CHOOSE k \in 1..(Len(args) - 1) : args[k] = flag) + 1]
\* The options of the contract, in its order.
ContractOptions ==
    <<"--input", "--output", "--create-new-ontology", "--equivalent-classes-allowed",
      "--include-indirect", "--axiom-generators", "--reasoner">>
FiveGenerators == "\"SubClass EquivalentClass DisjointClasses ClassAssertion PropertyAssertion\""
\* The list is the executable, the reason command and the seven options of
\* the contract, each followed by its value.
FollowsContract(args, name) ==
    /\ Len(args) = 2 + 2 * Len(ContractOptions)
    /\ args[2] = "reason"
    /\ \A k \in 1..Len(ContractOptions) : args[2 * k + 1] = ContractOptions[k]
    /\ Option(args, "--create-new-ontology") = "true"
    /\ Option(args, "--equivalent-classes-allowed") = "all"
    /\ Option(args, "--include-indirect") = "true"
    /\ Option(args, "--axiom-generators") = FiveGenerators
    /\ Option(args, "--reasoner") = name
    /\ Option(args, "--input") \in TmpNames
    /\ Option(args, "--output") \in TmpNames
    /\ Option(args, "--input") # Option(args, "--output")

\* C21: a call of infer that returns a graph has started the reasoner
\* executable exactly once, with the argument list of the contract and the
\* reasoner name the caller passed; while the executable runs and until its
\* output is parsed, --input and --output name the two temporary files of
\* this call, which are different files.
C21_ArgumentContract ==
    /\ (InferDone /\ err = NoErr) =>
          /\ Count(steps, "start") = 1
          /\ FollowsContract(argv, reasoner)
    /\ (op.name = "infer" /\ pc \in {"wait", "parse"}) =>
          /\ Count(steps, "start") = 1
          /\ FollowsContract(argv, reasoner)
          /\ Option(argv, "--input") = tmpIn
          /\ Option(argv, "--output") = tmpOut
          /\ tmpIn # tmpOut
          /\ fs[tmpIn] # Absent

\* infer was called with the reasoner that is not the default and returned a
\* graph.
C21_Witness ==
    /\ InferDone
    /\ err = NoErr
    /\ ret # 0
    /\ reasoner = "elk"
    /\ Option(argv, "--reasoner") = "elk"
    /\ Option(argv, "--input") = "tmp2"

\* The steps of the protocol, in its order.
ProtocolOrder ==
    <<"create_input", "create_output", "serialize", "start", "child_exit", "return",
      "parse", "delete_output", "delete_input">>
Rank(step) == CHOOSE k \in DOMAIN ProtocolOrder : ProtocolOrder[k] = step
Did(step) == Count(steps, step) > 0
\* The step was made only after the other one.
Needs(step, before) == Did(step) => Did(before)

\* C22: the steps of a call of infer come one at a time in the order of the
\* protocol: the two temporary files are created, the whole input graph is
\* written to the input file, the reasoner process is started, the caller
\* waits until it has exited, the output file is parsed, and the temporary
\* files are deleted, after the parse or after an error.  The output file
\* is not parsed while the process runs, nor after its deletion.
C22_ProtocolOrder ==
    op.name = "infer" =>
        /\ \A i, j \in DOMAIN steps :
              i < j => Rank(steps[i]) < Rank(steps[j])
        /\ Needs("create_output", "create_input")
        /\ Needs("serialize", "create_output")
        /\ Needs("start", "serialize")
        /\ Needs("child_exit", "start")
        /\ Needs("return", "child_exit")
        /\ Needs("parse", "return")
        /\ Needs("delete_output", "create_output")
        /\ Needs("delete_input", "delete_output")
        /\ Did("delete_output") => (Did("parse") \/ err # NoErr)
        /\ child = "running" =>
              /\ pc = "wait"
              /\ fs[tmpIn] # Absent
              /\ TriplesOf(fs[tmpIn]) = pre.g.triples
              /\ fs[tmpOut] # Absent
        /\ pc = "parse" =>
              /\ child # "running"
              /\ Did("child_exit")
              /\ ~Did("delete_output")
              /\ tmpOut \in TmpNames
        /\ (pc = "idle" /\ Did("create_input")) => Did("delete_input")

\* infer went through every step of the protocol and returned a graph with
\* triples in it.
C22_Witness ==
    /\ InferDone
    /\ err = NoErr
    /\ steps = ProtocolOrder
    /\ ret # 0
    /\ heap[ret].triples # {}

\* The exception infer_file and reason raise for a ROBOT that is not set.
IsRobotNotSet(e) ==
    /\ e.type = "Exception"
    /\ e.msg = "ROBOT environment variable not set"

\* C23: with ROBOT unset or empty a call of infer starts no reasoner process
\* and parses no output file; once the input is serialized (at once in
\* util/kg.py) it raises the plain Exception, which reaches the caller as it
\* is and is not caught by the __main__ block, and no graph is returned.
C23_NoRobotNoRun ==
    (~robot /\ op.name = "infer") =>
        /\ child = "none"
        /\ argv = <<>>
        /\ ~Did("start")
        /\ ~Did("parse")
        /\ pc \notin {"run", "wait", "parse"}
        /\ pc = "idle" =>
              /\ ret = 0
              /\ heap[calls] = Null
              /\ err # NoErr
              /\ err.type # "UserException"
              /\ (Did("serialize") \/ op.impl = "legacy") => IsRobotNotSet(err)
              /\ main # "caught"

\* infer_graph serialized its input, found ROBOT unset and raised; the
\* exception ended the script.
C23_Witness ==
    /\ ~robot
    /\ InferDone
    /\ op.impl = "helpers"
    /\ Did("serialize")
    /\ IsRobotNotSet(err)
    /\ main = "crashed"

=============================================================================
